---- MODULE Spec2Model ----
(***************************************************************************)
(* Model of app/models.py: the pydantic (v2) schemas MatchCreate,          *)
(* ScoreUpdate, ScheduledMatch and CompletedMatch.                         *)
(*                                                                         *)
(* A payload is a record with one entry per field of the schema.  An entry *)
(* says whether the key was supplied (given) and, if so, with which value. *)
(* Optional values are None or Some(x).  Validation walks the fields in    *)
(* declaration order; a field validator runs only for a supplied key, an   *)
(* omitted key takes the declared default unvalidated, a failed field is   *)
(* left out of info.data, and every field's error is collected.            *)
(***************************************************************************)
EXTENDS Integers, Sequences, FiniteSets, TLC

VARIABLES cls, payload, now, pc, result, calledAt, dumped

vars == <<cls, payload, now, pc, result, calledAt, dumped>>

\* ---------------------------------------------------------------- bounds
MaxTime == 1
MaxGoal == 0
MaxId == 0

Times == 0..MaxTime
Ids == 0..MaxId
GoalInputs == (0 - 1)..MaxGoal

\* ---------------------------------------------------------------- values
None == <<>>
Some(x) == <<x>>
IsNone(o) == Len(o) = 0
Val(o) == o[1]

Omitted == [given |-> FALSE, v |-> None]
Given(x) == [given |-> TRUE, v |-> x]
OptIn(S) == {Omitted, Given(None)} \cup {Given(Some(x)) : x \in S}
ReqIn(S) == {Given(x) : x \in S}

Ok(v) == [ok |-> TRUE, v |-> v]
Err(m) == [ok |-> FALSE, v |-> m]

\* ---------------------------------------------------------------- enums
ONE_V_ONE == "1v1"
TWO_V_TWO == "2v2"
MatchType == {ONE_V_ONE, TWO_V_TWO}

SCHEDULED == "SCHEDULED"
COMPLETED == "COMPLETED"
CANCELLED == "CANCELLED"
MatchStatus == {SCHEDULED, COMPLETED, CANCELLED}

\* ---------------------------------------------------------------- schemas
Classes == {"MatchCreate", "ScoreUpdate", "ScheduledMatch", "CompletedMatch"}

MatchBaseFields ==
    <<"round", "match_type", "team1_player1_id", "team1_player2_id",
      "team2_player1_id", "team2_player2_id", "match_date", "scheduled_date">>

ScheduledMatchFields == MatchBaseFields \o <<"status">>

CompletedMatchFields == MatchBaseFields \o <<"team1_goals", "team2_goals", "status">>

\* MatchCreate's fields with the goal counts declared before the dates
MatchCreateFields_goals_first ==
    <<"round", "match_type", "team1_player1_id", "team1_player2_id",
      "team2_player1_id", "team2_player2_id", "team1_goals", "team2_goals",
      "match_date", "scheduled_date", "status">>

MatchCreateFields ==
    <<"round", "match_type", "team1_player1_id", "team1_player2_id",
      "team2_player1_id", "team2_player2_id", "match_date", "scheduled_date",
      "team1_goals", "team2_goals", "status">>

ScoreUpdateFields == <<"team1_goals", "team2_goals">>

Fields(c) ==
    CASE c = "MatchCreate" -> MatchCreateFields
      [] c = "ScoreUpdate" -> ScoreUpdateFields
      [] c = "ScheduledMatch" -> ScheduledMatchFields
      [] c = "CompletedMatch" -> CompletedMatchFields

\* The fields declared with a default, and the default.
HasDefault(c, f) ==
    \/ f \in {"team1_player2_id", "team2_player2_id", "scheduled_date"}
    \/ f = "status"
    \/ c = "MatchCreate" /\ f \in {"team1_goals", "team2_goals"}

\* Default with CompletedMatch's status default copied from ScheduledMatch
Default_copied(c, f) ==
    IF f = "status" /\ c \in {"ScheduledMatch", "CompletedMatch"} THEN Some(SCHEDULED)
    ELSE None

Default(c, f) ==
    IF f = "status" /\ c = "ScheduledMatch" THEN Some(SCHEDULED)
    ELSE IF f = "status" /\ c = "CompletedMatch" THEN Some(COMPLETED)
    ELSE None

\* The fields typed Optional[...]: null is a valid input for them.
IsOptional(c, f) ==
    \/ f \in {"team1_player2_id", "team2_player2_id", "scheduled_date"}
    \/ c = "MatchCreate" /\ f \in {"team1_goals", "team2_goals", "status"}

\* The fields whose values the model writes as None / Some(x).
IsBoxed(f) ==
    f \in {"team1_player2_id", "team2_player2_id", "scheduled_date",
           "team1_goals", "team2_goals", "status"}

\* ---------------------------------------------------------------- field validators
\* MatchBase.validate_2v2_players (inherited by ScheduledMatch, CompletedMatch)
MatchBase_validate_2v2_players(v, data) ==
    IF "match_type" \in DOMAIN data
    THEN IF data["match_type"] = TWO_V_TWO /\ IsNone(v)
         THEN Err("2v2 matches require both players for each team")
         ELSE IF data["match_type"] = ONE_V_ONE /\ ~IsNone(v)
              THEN Err("1v1 matches should not have second players")
              ELSE Ok(v)
    ELSE Ok(v)

\* CompletedMatch.validate_goals
CompletedMatch_validate_goals(v) ==
    IF Val(v) < 0 THEN Err("Goals cannot be negative") ELSE Ok(v)

\* validate_2v2_players testing the slot by truthiness, so that the id 0 counts
\* as no player
validate_2v2_players_truthy(v, data) ==
    IF "match_type" \in DOMAIN data
    THEN IF data["match_type"] = TWO_V_TWO /\ IsNone(v)
         THEN Err("2v2 matches require both players for each team")
         ELSE IF data["match_type"] = ONE_V_ONE /\ ~IsNone(v) /\ Val(v) # 0
              THEN Err("1v1 matches should not have second players")
              ELSE Ok(v)
    ELSE Ok(v)

\* MatchCreate.validate_2v2_players
validate_2v2_players(v, data) ==
    IF "match_type" \in DOMAIN data
    THEN IF data["match_type"] = TWO_V_TWO /\ IsNone(v)
         THEN Err("2v2 matches require both players for each team")
         ELSE IF data["match_type"] = ONE_V_ONE /\ ~IsNone(v)
              THEN Err("1v1 matches should not have second players")
              ELSE Ok(v)
    ELSE Ok(v)

\* MatchCreate.set_scheduled_date: v or info.data.get("match_date")
set_scheduled_date(v, data) ==
    IF ~IsNone(v) THEN Ok(v)
    ELSE IF "match_date" \in DOMAIN data THEN Ok(Some(data["match_date"]))
    ELSE Ok(None)

\* validate_match_date rejecting the present instant too (v <= now)
validate_match_date_inclusive(v, t) ==
    IF v <= t THEN Err("Match date cannot be in the past") ELSE Ok(v)

\* MatchCreate.validate_match_date: t is datetime.now() at the call
validate_match_date(v, t) ==
    IF v < t THEN Err("Match date cannot be in the past") ELSE Ok(v)

\* MatchCreate.determine_status_from_goals: the supplied v is not read
determine_status_from_goals(v, data) ==
    LET has_goals == /\ "team1_goals" \in DOMAIN data
                     /\ "team2_goals" \in DOMAIN data
                     /\ ~IsNone(data["team1_goals"])
                     /\ ~IsNone(data["team2_goals"])
    IN  Ok(Some(IF has_goals THEN COMPLETED ELSE SCHEDULED))

\* validate_goals rejecting a goal count of 0 too (v <= 0)
validate_goals_positive(v) ==
    IF ~IsNone(v) /\ Val(v) <= 0 THEN Err("Goals cannot be negative") ELSE Ok(v)

\* MatchCreate.validate_goals
validate_goals(v) ==
    IF ~IsNone(v) /\ Val(v) < 0 THEN Err("Goals cannot be negative") ELSE Ok(v)

\* ScoreUpdate.validate_goals
ScoreUpdate_validate_goals(v) ==
    IF Val(v) < 0 THEN Err("Goals cannot be negative") ELSE Ok(v)

\* ---------------------------------------------------------------- the validation pass
\* The declared type of the field: an enum member, or a non-null value where
\* the field is not Optional.
TypeCheck(c, f, v) ==
    IF f = "match_type"
    THEN IF v \in MatchType THEN Ok(v) ELSE Err("Input should be '1v1' or '2v2'")
    ELSE IF IsBoxed(f) /\ ~IsOptional(c, f) /\ IsNone(v)
         THEN Err("Input should be a valid value, not null")
         ELSE Ok(v)

\* The field_validator registered for field f of class c (mode "after").
FieldValidator(c, f, v, data, t) ==
    CASE c = "MatchCreate" /\ f \in {"team1_player2_id", "team2_player2_id"} ->
            validate_2v2_players(v, data)
      [] c = "MatchCreate" /\ f = "scheduled_date" -> set_scheduled_date(v, data)
      [] c = "MatchCreate" /\ f = "match_date" -> validate_match_date(v, t)
      [] c = "MatchCreate" /\ f = "status" -> determine_status_from_goals(v, data)
      [] c = "MatchCreate" /\ f \in {"team1_goals", "team2_goals"} -> validate_goals(v)
      [] c = "ScoreUpdate" /\ f \in {"team1_goals", "team2_goals"} ->
            ScoreUpdate_validate_goals(v)
      [] c \in {"ScheduledMatch", "CompletedMatch"}
           /\ f \in {"team1_player2_id", "team2_player2_id"} ->
            MatchBase_validate_2v2_players(v, data)
      [] c = "CompletedMatch" /\ f \in {"team1_goals", "team2_goals"} ->
            CompletedMatch_validate_goals(v)
      [] OTHER -> Ok(v)

\* One field of the pass.  acc.data is info.data: the fields validated so far.
ValidateField(c, f, input, t, acc) ==
    IF input[f].given
    THEN LET ty == TypeCheck(c, f, input[f].v)
             r == IF ty.ok THEN FieldValidator(c, f, ty.v, acc.data, t) ELSE ty
         IN  IF r.ok
             THEN [data |-> (f :> r.v) @@ acc.data, errors |-> acc.errors]
             ELSE [data |-> acc.data, errors |-> Append(acc.errors, <<f, r.v>>)]
    ELSE IF HasDefault(c, f)
         THEN [data |-> (f :> Default(c, f)) @@ acc.data, errors |-> acc.errors]
         ELSE [data |-> acc.data, errors |-> Append(acc.errors, <<f, "Field required">>)]

RECURSIVE ValidateFields(_, _, _, _, _)
ValidateFields(c, fields, input, t, acc) ==
    IF fields = <<>> THEN acc
    ELSE ValidateFields(c, Tail(fields), input, t,
                        ValidateField(c, Head(fields), input, t, acc))

NoObj == [x \in {} |-> x]
NoResult == [ok |-> FALSE, obj |-> NoObj, errors |-> <<>>]

\* c(**input) at time t: the validated object, or the collected errors.
model_validate(c, input, t) ==
    LET acc == ValidateFields(c, Fields(c), input, t, [data |-> NoObj, errors |-> <<>>])
    IN  IF acc.errors = <<>>
        THEN [ok |-> TRUE, obj |-> acc.data, errors |-> <<>>]
        ELSE [ok |-> FALSE, obj |-> NoObj, errors |-> acc.errors]

\* MatchCreate.dict
dict(self) ==
    LET has_goals == ~IsNone(self["team1_goals"]) /\ ~IsNone(self["team2_goals"])
    IN  [self EXCEPT !["status"] = Some(IF has_goals THEN COMPLETED ELSE SCHEDULED)]

\* ---------------------------------------------------------------- inputs
MatchBasePayloads ==
    [round : ReqIn({"R1"}),
     match_type : ReqIn(MatchType \cup {"3v3"}),
     team1_player1_id : ReqIn({1}),
     team1_player2_id : OptIn(Ids),
     team2_player1_id : ReqIn({2}),
     team2_player2_id : OptIn(Ids),
     match_date : ReqIn(Times),
     scheduled_date : OptIn(Times)]

Extend(base, more) == {b @@ m : b \in base, m \in more}

MatchCreatePayloads ==
    Extend(MatchBasePayloads,
           [team1_goals : OptIn(GoalInputs), team2_goals : OptIn(GoalInputs),
            status : OptIn(MatchStatus)])

ScheduledMatchPayloads == Extend(MatchBasePayloads, [status : OptIn(MatchStatus)])

CompletedMatchPayloads ==
    Extend(MatchBasePayloads,
           [team1_goals : OptIn(GoalInputs), team2_goals : OptIn(GoalInputs),
            status : OptIn(MatchStatus)])

ScoreUpdatePayloads == [team1_goals : OptIn(GoalInputs), team2_goals : OptIn(GoalInputs)]

Payloads(c) ==
    CASE c = "MatchCreate" -> MatchCreatePayloads
      [] c = "ScoreUpdate" -> ScoreUpdatePayloads
      [] c = "ScheduledMatch" -> ScheduledMatchPayloads
      [] c = "CompletedMatch" -> CompletedMatchPayloads

\* ---------------------------------------------------------------- state machine
\* pc: "idle" before the first call, "done" after it, "redone" once the same
\* payload has been validated again at a later time.
Start(classes) ==
    /\ cls \in classes
    /\ payload \in Payloads(cls)
    /\ now = 0
    /\ pc = "idle"
    /\ result = NoResult
    /\ calledAt = 0
    /\ dumped = NoObj

\* The clock advances, with or without a call in between.
Tick ==
    /\ now < MaxTime
    /\ now' = now + 1
    /\ UNCHANGED <<cls, payload, pc, result, calledAt, dumped>>

\* A call c(**payload) returns, datetime.now() being now.
Returns(c) ==
    /\ pc' = IF pc = "idle" THEN "done" ELSE "redone"
    /\ result' = model_validate(c, payload, now)
    /\ calledAt' = now
    /\ dumped' = NoObj
    /\ UNCHANGED <<cls, payload, now>>

ValidateMatchCreate ==
    /\ cls = "MatchCreate"
    /\ pc = "idle" \/ now > calledAt
    /\ Returns("MatchCreate")

ValidateScoreUpdate ==
    /\ cls = "ScoreUpdate"
    /\ pc = "idle" \/ now > calledAt
    /\ Returns("ScoreUpdate")

ValidateScheduledMatch ==
    /\ cls = "ScheduledMatch"
    /\ pc = "idle" \/ now > calledAt
    /\ Returns("ScheduledMatch")

ValidateCompletedMatch ==
    /\ cls = "CompletedMatch"
    /\ pc = "idle" \/ now > calledAt
    /\ Returns("CompletedMatch")

\* MatchCreate.dict() on a validated object
Dict ==
    /\ pc # "idle"
    /\ cls = "MatchCreate"
    /\ result.ok
    /\ dumped' = dict(result.obj)
    /\ UNCHANGED <<cls, payload, now, pc, result, calledAt>>

\* The request payloads: match creation and score update.
Init == Start({"MatchCreate", "ScoreUpdate"})

Next ==
    \/ Tick
    \/ ValidateMatchCreate
    \/ ValidateScoreUpdate
    \/ Dict

Spec == Init /\ [][Next]_vars

\* The stored-match schemas.
InitMatch == Start({"ScheduledMatch", "CompletedMatch"})

NextMatch ==
    \/ Tick
    \/ ValidateScheduledMatch
    \/ ValidateCompletedMatch

SpecMatch == InitMatch /\ [][NextMatch]_vars

\* ---------------------------------------------------------------- properties
SecondPlayers == {"team1_player2_id", "team2_player2_id"}
GoalFields == {"team1_goals", "team2_goals"}

Msg2v2 == "2v2 matches require both players for each team"
Msg1v1 == "1v1 matches should not have second players"
MsgNegative == "Goals cannot be negative"
MsgPast == "Match date cannot be in the past"

Called == pc # "idle"
Created == cls = "MatchCreate" /\ Called
Accepted == Created /\ result.ok

HasError(f, msg) == \E i \in 1..Len(result.errors) : result.errors[i] = <<f, msg>>
NoErrorOn(f) == \A i \in 1..Len(result.errors) : result.errors[i][1] # f
ErrorFields == [i \in 1..Len(result.errors) |-> result.errors[i][1]]

\* The payload has no value for f: the key is omitted, or supplied as null.
Lacks(f) == IsNone(payload[f].v)
BothGoals == ~Lacks("team1_goals") /\ ~Lacks("team2_goals")

\* C1: a 2v2 creation payload lacking a second player (key omitted or null) is
\* rejected with the 2v2 message on that slot, and no accepted 2v2 record has
\* a null second-player slot.
C1_Missing2v2PlayerRejected ==
    (Created /\ payload.match_type.v = TWO_V_TWO) =>
        /\ \A f \in SecondPlayers : Lacks(f) => ~result.ok /\ HasError(f, Msg2v2)
        /\ result.ok => \A f \in SecondPlayers : ~IsNone(result.obj[f])

\* C2: the status of an accepted creation record is never null, and is
\* COMPLETED iff both goal counts are present, otherwise SCHEDULED, whatever
\* status the payload carried or omitted.
C2_StatusDerivedFromGoals ==
    Accepted =>
        /\ ~IsNone(result.obj["status"])
        /\ result.obj["status"] = Some(IF BothGoals THEN COMPLETED ELSE SCHEDULED)

\* C3: the scheduled_date of an accepted creation record equals match_date
\* when the payload lacks scheduled_date, is the supplied one otherwise, and
\* is never null.
C3_ScheduledDateDefaulted ==
    Accepted =>
        /\ ~IsNone(result.obj["scheduled_date"])
        /\ Lacks("scheduled_date") =>
               result.obj["scheduled_date"] = Some(result.obj["match_date"])
        /\ ~Lacks("scheduled_date") =>
               result.obj["scheduled_date"] = payload.scheduled_date.v

\* C4: a 1v1 creation payload with a non-null second player (the id 0
\* included) is rejected with the 1v1 message on that slot, and every accepted
\* 1v1 record has both second-player slots null.
C4_No1v1SecondPlayer ==
    (Created /\ payload.match_type.v = ONE_V_ONE) =>
        /\ \A f \in SecondPlayers : ~Lacks(f) => ~result.ok /\ HasError(f, Msg1v1)
        /\ result.ok => \A f \in SecondPlayers : IsNone(result.obj[f])

C4_Witness ==
    /\ Created
    /\ payload.match_type.v = ONE_V_ONE
    /\ payload.team1_player2_id = Given(Some(0))
    /\ Lacks("team2_player2_id")
    /\ result.errors = << <<"team1_player2_id", Msg1v1>> >>

\* C5: creation and score-update validation reject exactly the negative goal
\* counts with the negative-value error, on the field that carries it; a goal
\* count >= 0 never raises it, and a creation payload lacking a goal count
\* gets no error on that field.
C5_NegativeGoalsRejected ==
    (cls \in {"MatchCreate", "ScoreUpdate"} /\ Called) =>
        \A f \in GoalFields :
            /\ (~Lacks(f) /\ Val(payload[f].v) < 0) => ~result.ok /\ HasError(f, MsgNegative)
            /\ (~Lacks(f) /\ Val(payload[f].v) >= 0) => NoErrorOn(f)
            /\ (cls = "MatchCreate" /\ Lacks(f)) => NoErrorOn(f)

C5_Witness ==
    /\ Created
    /\ payload.team1_goals = Given(Some(0))
    /\ payload.team2_goals = Given(Some(0 - 1))
    /\ ~result.ok
    /\ HasError("team2_goals", MsgNegative)
    /\ NoErrorOn("team1_goals")

\* C6: a creation payload gets the past-date error exactly when its match_date
\* is strictly earlier than the clock at the moment of validation.
C6_PastDateRejected ==
    Created =>
        /\ payload.match_date.v < calledAt => ~result.ok /\ HasError("match_date", MsgPast)
        /\ payload.match_date.v >= calledAt => NoErrorOn("match_date")

C6_Witness ==
    /\ Created
    /\ payload.match_date.v < calledAt
    /\ result.errors = << <<"match_date", MsgPast>> >>

Past(t) == cls = "MatchCreate" /\ payload.match_date.v < t

RuleViolated(f, t) ==
    CASE f = "match_type" -> payload[f].v \notin MatchType
      [] f \in SecondPlayers ->
            /\ payload[f].given
            /\ \/ payload.match_type.v = TWO_V_TWO /\ Lacks(f)
               \/ payload.match_type.v = ONE_V_ONE /\ ~Lacks(f)
      [] f \in GoalFields -> ~Lacks(f) /\ Val(payload[f].v) < 0
      [] f = "match_date" -> payload[f].v < t
      [] OTHER -> FALSE

\* The fields in declaration order (lines 91 to 101 of the class body).
DeclaredOrder ==
    <<"round", "match_type", "team1_player1_id", "team1_player2_id",
      "team2_player1_id", "team2_player2_id", "match_date", "scheduled_date",
      "team1_goals", "team2_goals", "status">>

\* The invariant (1 to 5) that the rule on field f belongs to.
RuleOf(f) ==
    CASE f \in SecondPlayers -> 1
      [] f \in GoalFields -> 2
      [] f = "match_date" -> 5
      [] OTHER -> 0

Least(S) == CHOOSE x \in S : \A y \in S : x <= y

C9_StatusFieldEqualsDict ==
    (Accepted /\ DOMAIN dumped # {}) => result.obj["status"] = dumped["status"]

\* C10 as stated: a validated ScheduledMatch has status SCHEDULED and a
\* validated CompletedMatch has both goal counts and status COMPLETED.
C10_StatusFixedByClass ==
    (Called /\ result.ok) =>
        /\ cls = "ScheduledMatch" => result.obj["status"] = Some(SCHEDULED)
        /\ cls = "CompletedMatch" =>
               /\ result.obj["status"] = Some(COMPLETED)
               /\ \A f \in GoalFields : ~IsNone(result.obj[f])

\* C10 amended: a validated ScheduledMatch has the status the payload
\* supplies, and SCHEDULED when it supplies none; a validated CompletedMatch
\* has the status the payload supplies, and COMPLETED when it supplies none,
\* and always carries both goal counts.
C10_StatusDefaultedByClass ==
    (Called /\ result.ok) =>
        /\ ~IsNone(result.obj["status"])
        /\ payload.status.given => result.obj["status"] = payload.status.v
        /\ (~payload.status.given /\ cls = "ScheduledMatch") =>
               result.obj["status"] = Some(SCHEDULED)
        /\ (~payload.status.given /\ cls = "CompletedMatch") =>
               result.obj["status"] = Some(COMPLETED)
        /\ cls = "CompletedMatch" => \A f \in GoalFields : ~IsNone(result.obj[f])

C10_Witness ==
    /\ cls = "ScheduledMatch"
    /\ Called
    /\ result.ok
    /\ payload.status = Given(Some(COMPLETED))
    /\ result.obj["status"] = Some(COMPLETED)

====
